---- MODULE Spec2Model ----
(***************************************************************************)
(* Model of hyperion/dust/emissivities.py: the Emissivities table, its     *)
(* validating __setattr__, the LTE solver set_lte, normalize, the codec    *)
(* to_table_set / from_table_set and hash.                                 *)
(*                                                                         *)
(* Floats are modelled as exact rationals <<n, d>> in lowest terms with    *)
(* d > 0, extended by the IEEE specials <<0, 0>> (NaN), <<1, 0>> (+inf)    *)
(* and <<-1, 0>> (-inf), so that a division by a zero norm yields what     *)
(* numpy yields instead of an error.                                       *)
(***************************************************************************)
EXTENDS Integers, Sequences, FiniteSets, TLC

VARIABLES
    self,     \* the Emissivities instance: is_lte, var_name, var, nu, jnu
    old,      \* the fields of self before the last call
    op,       \* the last call: its name and its arguments
    err,      \* how the last call ended: "ok" or the error raised, and where
    writes,   \* the attributes the last call passed to __setattr__, in order
    logged,   \* the warnings the last call sent to logger.warn, in order
    ts,       \* the table set the last to_table_set was given
    written,  \* the fields of self at that to_table_set call
    ret,      \* the last two values returned by hash(), with the table hashed
    npop      \* the number of set_lte and from_table_set calls made on self

vars == <<self, old, op, err, writes, logged, ts, written, ret, npop>>

----------------------------------------------------------------------------
(* Bounds of the model *)

MaxLen == 2        \* longest sequence assigned to nu or var
MaxFreq == 2       \* largest frequency / state value in an assigned sequence
MaxNTemp == 2      \* largest n_temp passed to set_lte
MaxTemp == 3       \* largest temperature passed to set_lte
MaxPopCalls == 2   \* most set_lte and from_table_set calls made on one instance

----------------------------------------------------------------------------
(* Floats *)

Abs(i) == IF i < 0 THEN -i ELSE i
Sign(i) == IF i < 0 THEN -1 ELSE IF i = 0 THEN 0 ELSE 1

RECURSIVE GCD(_, _)
GCD(a, b) == IF b = 0 THEN a ELSE GCD(b, a % b)

NaN == <<0, 0>>
Inf == <<1, 0>>
R(i) == <<i, 1>>
Zero == R(0)
One == R(1)

IsNaN(a) == a = NaN
IsFinite(a) == a[2] # 0

RNorm(n, d) ==
    IF d = 0 THEN <<Sign(n), 0>>
    ELSE LET g == GCD(Abs(n), Abs(d)) IN <<(Sign(d) * n) \div g, Abs(d) \div g>>

RNeg(a) == <<-a[1], a[2]>>

RAdd(a, b) ==
    IF IsNaN(a) \/ IsNaN(b) THEN NaN
    ELSE IF ~IsFinite(a) /\ ~IsFinite(b) THEN (IF a = b THEN a ELSE NaN)
    ELSE IF ~IsFinite(a) THEN a
    ELSE IF ~IsFinite(b) THEN b
    ELSE RNorm(a[1] * b[2] + b[1] * a[2], a[2] * b[2])

RSub(a, b) == RAdd(a, RNeg(b))

RMul(a, b) ==
    IF IsNaN(a) \/ IsNaN(b) THEN NaN
    ELSE IF ~IsFinite(a) \/ ~IsFinite(b) THEN <<Sign(a[1]) * Sign(b[1]), 0>>
    ELSE RNorm(a[1] * b[1], a[2] * b[2])

\* x / y as numpy divides: x / 0 is +-inf, 0 / 0 and inf / inf are NaN.
RDiv(a, b) ==
    IF IsNaN(a) \/ IsNaN(b) THEN NaN
    ELSE IF ~IsFinite(b) THEN (IF IsFinite(a) THEN Zero ELSE NaN)
    ELSE IF b[1] = 0 THEN <<Sign(a[1]), 0>>
    ELSE IF ~IsFinite(a) THEN <<Sign(a[1]) * Sign(b[1]), 0>>
    ELSE RNorm(a[1] * b[2], a[2] * b[1])

\* Comparisons with NaN are false.
RLt(a, b) ==
    /\ ~IsNaN(a) /\ ~IsNaN(b)
    /\ IF IsFinite(a) /\ IsFinite(b) THEN a[1] * b[2] < b[1] * a[2]
       ELSE IF ~IsFinite(a) /\ ~IsFinite(b) THEN a[1] < b[1]
       ELSE IF IsFinite(a) THEN b[1] > 0
       ELSE a[1] < 0

RLe(a, b) == ~IsNaN(a) /\ ~IsNaN(b) /\ (a = b \/ RLt(a, b))

RECURSIVE RPow(_, _)
RPow(a, k) == IF k = 0 THEN One ELSE RMul(a, RPow(a, k - 1))

----------------------------------------------------------------------------
(* Values: None, numpy arrays, lists / tuples, and bare numbers.  An array *)
(* is its shape and its elements in row-major order.                       *)

None == [kind |-> "None", shape |-> <<>>, data |-> <<>>]
NdArray(shape, data) == [kind |-> "ndarray", shape |-> shape, data |-> data]
List(shape, data) == [kind |-> "list", shape |-> shape, data |-> data]
Float(x) == [kind |-> "float", shape |-> <<>>, data |-> <<x>>]

np_array(value) == [value EXCEPT !.kind = "ndarray"]
ndim(a) == Len(a.shape)
len(a) == a.shape[1]

\* a[i, j] of a 2-D array, and its column a[:, j] as a sequence
At(a, i, j) == a.data[(i - 1) * a.shape[2] + j]
Column(a, j) == [i \in 1..a.shape[1] |-> At(a, i, j)]

is_numpy_array(value) == value.kind = "ndarray"

monotonically_increasing(a) ==
    \A i \in 1..(Len(a.data) - 1) : RLt(a.data[i], a.data[i + 1])

----------------------------------------------------------------------------
(* Emissivities.__init__ *)

Fields == {"is_lte", "var_name", "var", "nu", "jnu"}

__init__ ==
    [is_lte |-> FALSE, var_name |-> "None", var |-> None, nu |-> None, jnu |-> None]

\* the attributes __init__ assigns, in order
InitWrites == <<"is_lte", "var_name", "var", "nu", "jnu">>

Ok == [kind |-> "ok", attr |-> "-"]
Error(kind, attribute) == [kind |-> kind, attr |-> attribute]

\* The outcome of a call on table t: the table it leaves, the error it ends
\* with, and the attributes it passed to __setattr__ and warnings it logged.
Outcome(t, e, w, l) == [t |-> t, err |-> e, writes |-> w, logged |-> l]

----------------------------------------------------------------------------
(* Emissivities.__setattr__ *)

Coerce(value) == IF value.kind = "list" THEN np_array(value) ELSE value

CheckAxis(attribute, value) ==
    IF ~is_numpy_array(value) \/ ndim(value) # 1
    THEN Error("InvalidShape", attribute)
    ELSE IF ~monotonically_increasing(value)
    THEN Error("NotMonotonic", attribute)
    ELSE IF len(value) = 0
    THEN Error("IndexError", attribute)
    ELSE IF RLe(value.data[1], Zero)
    THEN Error("NonPositive", attribute)
    ELSE Ok

\* CheckJnu comparing only the first dimension of value with nu
CheckJnuAgainstNuOnly(t, attribute, value) ==
    IF t.nu = None
    THEN Error("MissingDependency", attribute)
    ELSE IF t.var = None
    THEN Error("MissingDependency", attribute)
    ELSE IF ~is_numpy_array(Coerce(value)) \/ ndim(Coerce(value)) # 2
    THEN Error("InvalidShape", attribute)
    ELSE IF value.shape[1] # len(t.nu)
    THEN Error("InvalidShape", attribute)
    ELSE IF \E k \in 1..Len(value.data) : RLt(value.data[k], Zero)
    THEN Error("NegativeValue", attribute)
    ELSE Ok

CheckJnu(t, attribute, value) ==
    IF t.nu = None
    THEN Error("MissingDependency", attribute)
    ELSE IF t.var = None
    THEN Error("MissingDependency", attribute)
    ELSE IF ~is_numpy_array(Coerce(value)) \/ ndim(Coerce(value)) # 2
    THEN Error("InvalidShape", attribute)
    ELSE IF value.shape[1] # len(t.nu) \/ value.shape[2] # len(t.var)
    THEN Error("InvalidShape", attribute)
    ELSE IF \E k \in 1..Len(value.data) : RLt(value.data[k], Zero)
    THEN Error("NegativeValue", attribute)
    ELSE Ok

Validate(t, attribute, value) ==
    IF attribute \in {"nu", "var"} /\ value # None
    THEN CheckAxis(attribute, Coerce(value))
    ELSE IF attribute \in {"jnu"} /\ value # None
    THEN CheckJnu(t, attribute, value)
    ELSE Ok

Stored(attribute, value) ==
    IF attribute \in {"nu", "var", "jnu"} THEN Coerce(value) ELSE value

\* __setattr__ storing the value before it validates it
StoreThenValidate(t, attribute, value) ==
    Outcome([t EXCEPT ![attribute] = Stored(attribute, value)],
            Validate(t, attribute, value), <<attribute>>, <<>>)

__setattr__(t, attribute, value) ==
    LET e == Validate(t, attribute, value)
    IN  IF e = Ok
        THEN Outcome([t EXCEPT ![attribute] = Stored(attribute, value)], Ok,
                     <<attribute>>, <<>>)
        ELSE Outcome(t, e, <<attribute>>, <<>>)

\* self.attribute = value inside a method: skipped once the method has raised
Then(r, attribute, value) ==
    IF r.err # Ok THEN r
    ELSE LET s == __setattr__(r.t, attribute, value)
         IN  Outcome(s.t, s.err, r.writes \o s.writes, r.logged)

Start(t) == Outcome(t, Ok, <<>>, <<>>)

----------------------------------------------------------------------------
(* Helpers of set_lte.  planck_nu_range, nu_common, interp1d_fast_loglog,  *)
(* B_nu and sigma live in hyperion.util, np.logspace in numpy.  Frequencies *)
(* and temperatures are in units that make the axes small integers.        *)

SetOf(a) == {a.data[i] : i \in 1..Len(a.data)}

RMin(S) == CHOOSE x \in S : \A y \in S : RLe(x, y)
RMax(S) == CHOOSE x \in S : \A y \in S : RLe(y, x)
min(a) == RMin(SetOf(a))
max(a) == RMax(SetOf(a))

RECURSIVE Sorted(_)
Sorted(S) == IF S = {} THEN <<>> ELSE <<RMin(S)>> \o Sorted(S \ {RMin(S)})

Array1(s) == NdArray(<<Len(s)>>, s)

\* The frequency support of the Planck function between the two extreme
\* temperatures: a grid from the peak at temp_min to the peak at temp_max
\* (Wien: the peak frequency is proportional to the temperature).
planck_nu_range(temp_min, temp_max) ==
    Array1([i \in 1..(temp_max - temp_min + 1) |-> R(temp_min + i - 1)])

\* The two axes merged, sorted, without duplicates.
nu_common(nu1, nu2) == Array1(Sorted(SetOf(nu1) \cup SetOf(nu2)))

\* a[a > x]
AboveMin(a, x) == Array1(SelectSeq(a.data, LAMBDA y : RLt(x, y)))

\* a[a >= x] and a[a <= x]
FromMin(a, x) == Array1(SelectSeq(a.data, LAMBDA y : RLe(x, y)))
UpToMax(a, x) == Array1(SelectSeq(a.data, LAMBDA y : RLe(y, x)))

\* np.logspace(log10(temp_min), log10(temp_max), n_temp): n_temp points from
\* temp_min to temp_max.  The interior points of the geometric grid are
\* irrational and are placed on the chord; the end points and the order of
\* the points are those of the geometric grid.
logspace(temp_min, temp_max, n_temp) ==
    [i \in 1..n_temp |->
        IF n_temp = 1 THEN R(temp_min)
        ELSE RAdd(R(temp_min), RNorm((i - 1) * (temp_max - temp_min), n_temp - 1))]

\* Log-log interpolation of (x, y) at xval, inside the range of x.  At a node
\* it returns the node's value.  Between two nodes the logarithm of a value
\* that is not positive is -inf or NaN and the result is NaN; between two
\* equal positive values it is that value, and otherwise a value between the
\* two (their mean stands for the power-law mean).
InterpAt(x, y, v) ==
    IF \E k \in 1..Len(x.data) : x.data[k] = v
    THEN y[CHOOSE k \in 1..Len(x.data) : x.data[k] = v]
    ELSE LET k == CHOOSE k \in 1..(Len(x.data) - 1) :
                      RLt(x.data[k], v) /\ RLt(v, x.data[k + 1])
         IN  IF ~RLt(Zero, y[k]) \/ ~RLt(Zero, y[k + 1]) THEN NaN
             ELSE RDiv(RAdd(y[k], y[k + 1]), R(2))

interp1d_fast_loglog(x, y, xval) ==
    [i \in 1..Len(xval.data) |-> InterpAt(x, y, xval.data[i])]

\* The Planck function in its Rayleigh-Jeans form nu^2 T (2k/c^2 = 1):
\* positive and increasing with T for every nu > 0.
B_nu(nu, T) == RMul(RMul(nu, nu), T)

sigma == 1

----------------------------------------------------------------------------
(* Emissivities.set_lte *)

WarnLow == "Planck function for lowest temperature not completely covered by opacity function"
WarnHigh == "Planck function for highest temperature not completely covered by opacity function"

Warn(r, message) ==
    IF r.err # Ok THEN r ELSE Outcome(r.t, r.err, r.writes, Append(r.logged, message))

\* jnu[:, it] = kappa_nu * B_nu(self.nu, T), for every temperature
LteJnu(nu, kappa_nu, temperatures) ==
    LET m == Len(nu.data)
        n == Len(temperatures)
    IN  NdArray(<<m, n>>,
                [k \in 1..(m * n) |->
                    LET i == ((k - 1) \div n) + 1
                        it == ((k - 1) % n) + 1
                    IN  RMul(kappa_nu[i], B_nu(nu.data[i], temperatures[it]))])

\* var[it] = 4. * sigma * T ** 4. * kappa_planck
LteVar(temperatures, kappa_planck) ==
    Array1([it \in 1..Len(temperatures) |->
               RMul(RMul(R(4 * sigma), RPow(temperatures[it], 4)), kappa_planck[it])])

\* optical_properties: its nu and kappa, and kappa_planck, the values its
\* kappa_planck_spectrum returns for the temperatures in turn.
set_lte(t, optical_properties, n_temp, temp_min, temp_max) ==
    LET temperatures == logspace(temp_min, temp_max, n_temp)
        planck_nu == planck_nu_range(temp_min, temp_max)
        onu == optical_properties.nu
        r1 == Then(Start(t), "is_lte", TRUE)
        r2 == Then(r1, "nu", nu_common(planck_nu, onu))
        r3 == IF RLt(min(planck_nu), min(onu))
              THEN Then(Warn(r2, WarnLow), "nu", FromMin(r2.t.nu, min(onu)))
              ELSE r2
        r4 == IF RLt(max(onu), max(planck_nu))
              THEN Then(Warn(r3, WarnHigh), "nu", UpToMax(r3.t.nu, max(onu)))
              ELSE r3
        kappa_nu == interp1d_fast_loglog(onu, optical_properties.kappa, r4.t.nu)
        r5 == Then(r4, "var_name", "specific_energy")
        r6 == Then(r5, "var", LteVar(temperatures, optical_properties.kappa_planck))
    IN  Then(r6, "jnu", LteJnu(r4.t.nu, kappa_nu, temperatures))

----------------------------------------------------------------------------
(* The table set (atpy.TableSet): its keywords, a function from names to   *)
(* strings, and its tables in the order appended.  A table (atpy.Table) is *)
(* its name and its columns, a function from column names to arrays.       *)

EmptyTableSet == [keywords |-> <<>>, tables |-> <<>>]

add_keyword(table_set, key, value) ==
    [table_set EXCEPT !.keywords = (key :> value) @@ @]

append(table_set, table) == [table_set EXCEPT !.tables = Append(@, table)]

Table(name) == [name |-> name, columns |-> <<>>]

add_column(table, name, data) == [table EXCEPT !.columns = (name :> data) @@ @]

\* the columns of one table have the same number of rows
FitsTable(table, data) ==
    \A c \in DOMAIN table.columns : table.columns[c].shape[1] = data.shape[1]

HasTable(table_set, name) ==
    \E i \in 1..Len(table_set.tables) : table_set.tables[i].name = name

GetTable(table_set, name) ==
    table_set.tables[CHOOSE i \in 1..Len(table_set.tables) :
                         table_set.tables[i].name = name]

bool2str(b) == IF b THEN "yes" ELSE "no"

----------------------------------------------------------------------------
(* Emissivities.all_set, to_table_set, from_table_set *)

all_set(t) == t.var_name # "None" /\ t.var # None /\ t.nu # None /\ t.jnu # None

\* What to_table_set leaves in table_set, and how it ends.  It assigns no
\* attribute of the table.
Wrote(table_set, e) == [table_set |-> table_set, err |-> e]

\* to_table_set adding the emissvar keyword before it checks the table
KeywordThenCheck(t, table_set) ==
    LET ts1 == add_keyword(table_set, "emissvar", "E")
    IN  IF ~all_set(t)
        THEN Wrote(ts1, Error("IncompleteTable", "-"))
        ELSE IF t.var_name # "specific_energy"
        THEN Wrote(ts1, Error("UnsupportedVariable", "-"))
        ELSE LET temissvar == add_column(Table("emissivity_variable"), t.var_name, t.var)
                 temiss1 == add_column(Table("emissivities"), "nu", t.nu)
             IN  IF ~FitsTable(temiss1, t.jnu)
                 THEN Wrote(ts1, Error("ColumnLength", "-"))
                 ELSE LET temiss == add_column(temiss1, "jnu", t.jnu)
                          ts2 == add_keyword(ts1, "lte", bool2str(t.is_lte))
                      IN  Wrote(append(append(ts2, temiss), temissvar), Ok)

to_table_set(t, table_set) ==
    IF ~all_set(t)
    THEN Wrote(table_set, Error("IncompleteTable", "-"))
    ELSE IF t.var_name # "specific_energy"
    THEN Wrote(table_set, Error("UnsupportedVariable", "-"))
    ELSE LET ts1 == add_keyword(table_set, "emissvar", "E")
             temissvar == add_column(Table("emissivity_variable"), t.var_name, t.var)
             temiss1 == add_column(Table("emissivities"), "nu", t.nu)
         IN  IF ~FitsTable(temiss1, t.jnu)
             THEN Wrote(ts1, Error("ColumnLength", "-"))
             ELSE LET temiss == add_column(temiss1, "jnu", t.jnu)
                      ts2 == add_keyword(ts1, "lte", bool2str(t.is_lte))
                  IN  Wrote(append(append(ts2, temiss), temissvar), Ok)

\* a step of a method that raises e
Raise(r, e) == IF r.err # Ok THEN r ELSE Outcome(r.t, e, r.writes, r.logged)

\* self.attribute = table_set[table][column]
ThenColumn(r, attribute, table_set, table, column) ==
    IF r.err # Ok THEN r
    ELSE IF ~HasTable(table_set, table) THEN Raise(r, Error("KeyError", "-"))
    ELSE IF column \notin DOMAIN GetTable(table_set, table).columns
    THEN Raise(r, Error("KeyError", "-"))
    ELSE Then(r, attribute, GetTable(table_set, table).columns[column])

from_table_set(t, table_set) ==
    LET kw == table_set.keywords
        r1 == IF "emissvar" \notin DOMAIN kw
              THEN Raise(Start(t), Error("KeyError", "-"))
              ELSE IF kw["emissvar"] = "E"
              THEN Then(Start(t), "var_name", "specific_energy")
              ELSE Raise(Start(t), Error("UnsupportedVariable", "-"))
        r2 == ThenColumn(r1, "var", table_set, "emissivity_variable", r1.t.var_name)
        r3 == ThenColumn(r2, "nu", table_set, "emissivities", "nu")
        r4 == ThenColumn(r3, "jnu", table_set, "emissivities", "jnu")
    IN  IF r4.err # Ok THEN r4
        ELSE IF "lte" \notin DOMAIN kw THEN Raise(r4, Error("KeyError", "-"))
        ELSE Then(r4, "is_lte", kw["lte"] = "yes")

----------------------------------------------------------------------------
(* Emissivities.normalize.  integrate_loglog lives in hyperion.util.       *)

\* Trapezium integration of (x, y) in log-log space.  A segment with an end
\* that is not positive has no power law through it and is left out; the
\* power-law integral of the others (irrational in general) is stood for by
\* the trapezium: positive, and homogeneous in y, as the power-law integral.
Segment(x, y, k) ==
    IF IsNaN(y[k]) \/ IsNaN(y[k + 1]) THEN NaN
    ELSE IF ~RLt(Zero, y[k]) \/ ~RLt(Zero, y[k + 1]) THEN Zero
    ELSE RDiv(RMul(RSub(x[k + 1], x[k]), RAdd(y[k], y[k + 1])), R(2))

RECURSIVE SumSegments(_, _, _)
SumSegments(x, y, k) ==
    IF k = 0 THEN Zero ELSE RAdd(SumSegments(x, y, k - 1), Segment(x, y, k))

integrate_loglog(x, y) == SumSegments(x, y, Len(x) - 1)

\* a / b of two 1-D arrays as numpy broadcasts them: element by element when
\* the lengths agree, a length of one stretched to the other
Broadcasts(a, b) == Len(a) = Len(b) \/ Len(a) = 1 \/ Len(b) = 1
Quotient(a, b) ==
    [k \in 1..(IF Len(a) > Len(b) THEN Len(a) ELSE Len(b)) |->
        RDiv(a[IF Len(a) = 1 THEN 1 ELSE k], b[IF Len(b) = 1 THEN 1 ELSE k])]

\* self.jnu[:, ivar] /= norm, in place
DivideColumn(jnu, ivar, norm) ==
    [jnu EXCEPT !.data = [k \in 1..Len(jnu.data) |->
        IF ((k - 1) % jnu.shape[2]) + 1 = ivar THEN RDiv(jnu.data[k], norm)
        ELSE jnu.data[k]]]

\* One pass of the loop body, for column ivar, on the outcome so far.
NormalizeColumn(r, ivar) ==
    IF r.err # Ok THEN r
    ELSE IF r.t.jnu = None \/ r.t.nu = None
    THEN Raise(r, Error("TypeError", "-"))
    ELSE IF ivar > r.t.jnu.shape[2]
    THEN Raise(r, Error("IndexError", "-"))
    ELSE IF ~Broadcasts(Column(r.t.jnu, ivar), r.t.nu.data)
    THEN Raise(r, Error("ValueError", "-"))
    ELSE IF Len(r.t.nu.data) # Len(Quotient(Column(r.t.jnu, ivar), r.t.nu.data))
    THEN Raise(r, Error("ValueError", "-"))
    ELSE LET norm == integrate_loglog(r.t.nu.data,
                                      Quotient(Column(r.t.jnu, ivar), r.t.nu.data))
         IN  Outcome([r.t EXCEPT !.jnu = DivideColumn(r.t.jnu, ivar, norm)],
                     Ok, r.writes, r.logged)

RECURSIVE NormalizeColumns(_, _)
NormalizeColumns(r, n) ==
    IF n = 0 THEN r ELSE NormalizeColumn(NormalizeColumns(r, n - 1), n)

\* normalize with range(len(self.var) - 1): the last column left as it was
NormalizeButLast(t) ==
    IF t.var = None THEN Raise(Start(t), Error("TypeError", "-"))
    ELSE IF len(t.var) = 0 THEN Start(t)
    ELSE NormalizeColumns(Start(t), len(t.var) - 1)

normalize(t) ==
    IF t.var = None THEN Raise(Start(t), Error("TypeError", "-"))
    ELSE NormalizeColumns(Start(t), len(t.var))

----------------------------------------------------------------------------
(* Emissivities.hash.  md5 is taken as injective: the digest is the byte   *)
(* string fed to it.  A float is a word of fixed width.                    *)

\* str.encode('utf-8') of the strings that occur
Utf8(str) ==
    CASE str = "True" -> <<84, 114, 117, 101>>
      [] str = "False" -> <<70, 97, 108, 115, 101>>
      [] str = "specific_energy" ->
            <<115, 112, 101, 99, 105, 102, 105, 99, 95, 101, 110, 101, 114, 103, 121>>
      [] str = "temperature" -> <<116, 101, 109, 112, 101, 114, 97, 116, 117, 114, 101>>

str(b) == IF b THEN "True" ELSE "False"

RECURSIVE Words(_)
Words(data) == IF data = <<>> THEN <<>> ELSE <<Head(data)[1], Head(data)[2]>> \o Words(Tail(data))

\* ndarray.tostring(): the elements in row-major order, without the shape
tostring(a) == Words(a.data)

\* the digest, or the error of calling a method of None
hash(t) ==
    IF t.var_name = "None" \/ t.var = None \/ t.nu = None \/ t.jnu = None
    THEN [err |-> Error("AttributeError", "-"), digest |-> <<>>]
    ELSE [err |-> Ok,
          digest |-> Utf8(str(t.is_lte)) \o Utf8(t.var_name) \o tostring(t.var)
                     \o tostring(t.nu) \o tostring(t.jnu)]

----------------------------------------------------------------------------
(* Values the caller passes to the table *)

SeqsUpTo(S, n) == UNION {[1..k -> S] : k \in 0..n}

\* 1-D inputs: every sequence over 0..MaxFreq of length 0..MaxLen, as a list
\* and as an array; and inputs that are not 1-D.
AxisInputs ==
    {List(<<Len(s)>>, [i \in 1..Len(s) |-> R(s[i])]) : s \in SeqsUpTo(0..MaxFreq, MaxLen)}
    \cup {NdArray(<<Len(s)>>, [i \in 1..Len(s) |-> R(s[i])]) :
            s \in SeqsUpTo(0..MaxFreq, MaxLen)}
    \cup {Float(One), NdArray(<<1, 1>>, <<One>>), List(<<1, 1>>, <<One>>), None}

Shapes == {<<r, c>> : r \in 1..MaxLen, c \in 1..MaxLen}
Fill(s, x) == [k \in 1..(s[1] * s[2]) |-> x]
Unit(s, p, x, y) == [k \in 1..(s[1] * s[2]) |-> IF k = p THEN x ELSE y]

\* 2-D inputs of every shape up to MaxLen x MaxLen: all zero, all one, the
\* entries 1, 2, 3, ..., a single one among zeros, a single negative entry
\* among ones; and inputs that are not 2-D.
JnuInputs ==
    {NdArray(s, Fill(s, Zero)) : s \in Shapes}
    \cup {NdArray(s, Fill(s, One)) : s \in Shapes}
    \cup {NdArray(s, [k \in 1..(s[1] * s[2]) |-> R(k)]) : s \in Shapes}
    \cup {List(s, Fill(s, One)) : s \in Shapes}
    \cup UNION {{NdArray(s, Unit(s, p, One, Zero)) : p \in 1..(s[1] * s[2])} : s \in Shapes}
    \cup UNION {{NdArray(s, Unit(s, p, R(-1), One)) : p \in 1..(s[1] * s[2])} : s \in Shapes}
    \cup {Float(One), NdArray(<<1>>, <<One>>), List(<<2>>, <<One, One>>), None}

\* Well-formed axes: strictly increasing sequences of 1..maxv, not empty.
ValidAxes(maxv, maxlen) ==
    {Array1([i \in 1..Len(s) |-> R(s[i])]) :
        s \in {q \in SeqsUpTo(1..maxv, maxlen) :
                  Len(q) > 0 /\ \A i \in 1..(Len(q) - 1) : q[i] < q[i + 1]}}

\* Opacity models: a well-formed nu; kappa all one, all zero, or negative at
\* its first frequency; kappa_planck_spectrum returning 0 always or 1 always.
OptAxes == ValidAxes(MaxTemp, MaxLen)
KappaInputs(n) ==
    {[i \in 1..n |-> One], [i \in 1..n |-> Zero],
     [i \in 1..n |-> IF i = 1 THEN R(-1) ELSE One]}
KappaPlanckInputs(n) == {[i \in 1..n |-> Zero], [i \in 1..n |-> One]}

\* The small tables of the codec runs: one frequency, one or two states.
CodecNus == {None, Array1(<<One>>)}
CodecVars == {None, Array1(<<One>>), Array1(<<One, R(2)>>)}
CodecJnus == {None, NdArray(<<1, 1>>, <<One>>), NdArray(<<1, 2>>, <<Zero, One>>)}

\* A table set as a file may hold it: any keywords, any columns.
FileTableSet(emissvar, lte, var, nu, jnu) ==
    LET kw == (IF emissvar = "" THEN <<>> ELSE "emissvar" :> emissvar)
              @@ (IF lte = "" THEN <<>> ELSE "lte" :> lte)
    IN  [keywords |-> kw,
         tables |-> <<[name |-> "emissivities", columns |-> ("nu" :> nu) @@ ("jnu" :> jnu)],
                      [name |-> "emissivity_variable",
                       columns |-> "specific_energy" :> var]>>]

FileTableSets ==
    {FileTableSet(k[1], k[2], var, nu, jnu) :
        k \in {<<"E", "yes">>, <<"E", "no">>, <<"T", "yes">>, <<"E", "">>},
        var \in {Array1(<<One>>), Array1(<<R(2), One>>)},
        nu \in {Array1(<<One>>), Array1(<<One, R(2)>>)},
        jnu \in {NdArray(<<1, 1>>, <<One>>), NdArray(<<2, 1>>, <<One, One>>),
                 NdArray(<<1, 1>>, <<R(-1)>>)}}
    \cup {EmptyTableSet, add_keyword(EmptyTableSet, "emissvar", "E")}

\* The small tables of the hash runs: the two shapes of two entries.
HashAxes == {Array1(<<One>>), Array1(<<One, R(2)>>)}
HashJnus == {NdArray(<<1, 2>>, <<Zero, One>>), NdArray(<<2, 1>>, <<Zero, One>>)}

VarNames == {"None", "specific_energy", "temperature"}

----------------------------------------------------------------------------
(* State and the caller's operations *)

NoArg == [attr |-> "-"]

Init ==
    /\ self = __init__
    /\ old = __init__
    /\ op = [name |-> "__init__", arg |-> NoArg]
    /\ err = Ok
    /\ writes = InitWrites
    /\ logged = <<>>
    /\ ts = EmptyTableSet
    /\ written = __init__
    /\ ret = <<>>
    /\ npop = 0

\* A call named name with arguments arg on self, ending as r.
Call(name, arg, r) ==
    /\ self' = r.t
    /\ old' = self
    /\ op' = [name |-> name, arg |-> arg]
    /\ err' = r.err
    /\ writes' = r.writes
    /\ logged' = r.logged

\* e = Emissivities(): self becomes a new instance, which has no past
New ==
    /\ self' = __init__
    /\ old' = __init__
    /\ op' = [name |-> "__init__", arg |-> NoArg]
    /\ err' = Ok
    /\ writes' = InitWrites
    /\ logged' = <<>>
    /\ npop' = 0
    /\ UNCHANGED <<ts, written, ret>>

\* e.attribute = value, from outside the class
Assign(attribute, value) ==
    /\ Call("__setattr__", [attr |-> attribute, value |-> value],
            __setattr__(self, attribute, value))
    /\ UNCHANGED <<ts, written, ret, npop>>

AssignNu(S) == \E v \in S : Assign("nu", v)
AssignVar(S) == \E v \in S : Assign("var", v)
AssignJnu(S) == \E v \in S : Assign("jnu", v)
AssignVarName == \E v \in VarNames : Assign("var_name", v)
AssignIsLte == \E v \in BOOLEAN : Assign("is_lte", v)

\* e.set_lte(optical_properties, n_temp, temp_min, temp_max)
SetLte ==
    /\ npop < MaxPopCalls
    /\ npop' = npop + 1
    /\ \E onu \in OptAxes, n_temp \in 0..MaxNTemp, temp_min, temp_max \in 1..MaxTemp :
      \E kappa \in KappaInputs(Len(onu.data)), kp \in KappaPlanckInputs(n_temp) :
        /\ temp_min <= temp_max
        /\ UNCHANGED <<ts, written, ret>>
        /\ LET optical_properties == [nu |-> onu, kappa |-> kappa, kappa_planck |-> kp]
           IN  Call("set_lte",
                    [optical_properties |-> optical_properties, n_temp |-> n_temp,
                     temp_min |-> temp_min, temp_max |-> temp_max],
                    set_lte(self, optical_properties, n_temp, temp_min, temp_max))

\* e.to_table_set(table_set), with a new, empty table set
ToTableSet ==
    LET w == to_table_set(self, EmptyTableSet)
    IN  /\ Call("to_table_set", NoArg, Outcome(self, w.err, <<>>, <<>>))
        /\ ts' = w.table_set
        /\ written' = IF w.err = Ok THEN self ELSE __init__
        /\ UNCHANGED <<ret, npop>>

\* e.from_table_set(table_set)
FromTableSet(S) ==
    /\ npop < MaxPopCalls
    /\ npop' = npop + 1
    /\ \E table_set \in S :
          Call("from_table_set", [table_set |-> table_set],
               from_table_set(self, table_set))
    /\ UNCHANGED <<ts, written, ret>>

\* e.normalize()
Normalize ==
    /\ Call("normalize", NoArg, normalize(self))
    /\ UNCHANGED <<ts, written, ret, npop>>

\* e.hash()
Hash ==
    LET h == hash(self)
    IN  /\ Call("hash", NoArg, Outcome(self, h.err, <<>>, <<>>))
        /\ ret' = IF h.err # Ok THEN ret
                  ELSE (IF ret = <<>> THEN <<>> ELSE <<ret[Len(ret)]>>)
                       \o <<[digest |-> h.digest, of |-> self]>>
        /\ UNCHANGED <<ts, written, npop>>

NextSet ==
    \/ New
    \/ AssignNu(AxisInputs)
    \/ AssignVar(AxisInputs)
    \/ AssignJnu(JnuInputs)

SpecSet == Init /\ [][NextSet]_vars

\* The populating calls, on a new table and on a populated one.
NextPop ==
    \/ New
    \/ SetLte
    \/ FromTableSet(FileTableSets)

SpecPop == Init /\ [][NextPop]_vars

\* The codec: small tables written to a table set and read back, from the
\* table set as written or with its emissvar keyword overwritten.
NextCodec ==
    \/ New
    \/ AssignVarName
    \/ AssignIsLte
    \/ AssignNu(CodecNus)
    \/ AssignVar(CodecVars)
    \/ AssignJnu(CodecJnus)
    \/ ToTableSet
    \/ FromTableSet({ts, add_keyword(ts, "emissvar", "T")})

SpecCodec == Init /\ [][NextCodec]_vars

\* Normalisation of the tables the setter admits.
NextNorm ==
    \/ New
    \/ AssignVarName
    \/ AssignNu(ValidAxes(MaxFreq, MaxLen) \cup {None})
    \/ AssignVar(ValidAxes(MaxFreq, MaxLen) \cup {None})
    \/ AssignJnu(JnuInputs)
    \/ Normalize

SpecNorm == Init /\ [][NextNorm]_vars

\* Hashing: small tables, hashed between assignments.
NextHash ==
    \/ New
    \/ AssignVarName
    \/ AssignNu(HashAxes)
    \/ AssignVar(HashAxes)
    \/ AssignJnu(HashJnus)
    \/ Hash

SpecHash == Init /\ [][NextHash]_vars

----------------------------------------------------------------------------
(* Vocabulary of the properties *)

IsAssign(attribute) ==
    op.name = "__setattr__" /\ op.arg.attr = attribute /\ op.arg.value # None

\* a list, tuple or array with n dimensions
IsSequence(value, n) == value.kind \in {"list", "ndarray"} /\ Len(value.shape) = n

StrictlyIncreasing(value) ==
    \A i, j \in 1..Len(value.data) : i < j => RLt(value.data[i], value.data[j])

StrictlyPositive(value) == \A i \in 1..Len(value.data) : RLt(Zero, value.data[i])

HasNegative(value) == \E i \in 1..Len(value.data) : RLt(value.data[i], Zero)

SameValues(a, value) == a.kind = "ndarray" /\ a.shape = value.shape /\ a.data = value.data

ShapeMatches(t) ==
    /\ t.nu # None /\ t.var # None
    /\ ndim(t.jnu) = 2
    /\ t.jnu.shape = <<len(t.nu), len(t.var)>>

----------------------------------------------------------------------------
(* C1 *)

\* C1 (as claimed): in every reachable state, whenever jnu is set then nu and
\* var are both set and jnu is 2-D with shape exactly (len(nu), len(var)).
C1_JnuShapeInvariant == self.jnu # None => ShapeMatches(self)

----------------------------------------------------------------------------
(* C2 *)

AxisVerdict(value) ==
    IF ~IsSequence(value, 1) THEN "InvalidShape"
    ELSE IF ~StrictlyIncreasing(value) THEN "NotMonotonic"
    ELSE IF ~StrictlyPositive(value) THEN "NonPositive"
    ELSE "ok"

AxisAssignmentAsClaimed(attribute) ==
    IsAssign(attribute) =>
        /\ err.kind = AxisVerdict(op.arg.value)
        /\ err.kind = "ok" =>
              /\ SameValues(self[attribute], op.arg.value)
              /\ \A f \in Fields \ {attribute} : self[f] = old[f]
        /\ err.kind # "ok" => self = old

\* C2 (as claimed): a strictly increasing, strictly positive 1-D sequence
\* assigned to nu or var is accepted and stored unchanged; any other value is
\* rejected with the shape, else the monotonicity, else the positivity error,
\* and no field changes.
C2_AxisAssignment == AxisAssignmentAsClaimed("nu") /\ AxisAssignmentAsClaimed("var")

----------------------------------------------------------------------------
(* C3 *)

JnuVerdict(t, value) ==
    IF t.nu = None \/ t.var = None THEN "MissingDependency"
    ELSE IF ~IsSequence(value, 2) THEN "InvalidShape"
    ELSE IF value.shape # <<Len(t.nu.data), Len(t.var.data)>> THEN "InvalidShape"
    ELSE IF HasNegative(value) THEN "NegativeValue"
    ELSE "ok"

\* C3: a non-None value assigned to jnu is rejected with the missing-dependency
\* error when nu or var is absent, whatever the value; else with the shape
\* error unless it is 2-D of shape (len(nu), len(var)); else with the
\* negative-value error if an entry is negative; else it is accepted; and a
\* rejected assignment changes no field.
C3_JnuAssignment ==
    IsAssign("jnu") =>
        /\ err.kind = JnuVerdict(old, op.arg.value)
        /\ err.kind = "ok" =>
              /\ SameValues(self.jnu, op.arg.value)
              /\ \A f \in Fields \ {"jnu"} : self[f] = old[f]
        /\ err.kind # "ok" => self = old /\ err.attr = "jnu"

\* A populated table rejects a well-shaped jnu that has a negative entry.
C3_Witness ==
    /\ IsAssign("jnu")
    /\ err.kind = "NegativeValue"
    /\ old.jnu # None /\ ShapeMatches(old)
    /\ op.arg.value.shape = old.jnu.shape

----------------------------------------------------------------------------
(* C8 *)

Rank(attribute) == CASE attribute = "nu" -> 1 [] attribute = "var" -> 2
                     [] attribute = "jnu" -> 3 [] OTHER -> 0

\* the assignments to nu, var and jnu among the writes of the last call
AxisWrites == SelectSeq(writes, LAMBDA a : Rank(a) > 0)

ValidationErrors ==
    {"InvalidShape", "NotMonotonic", "NonPositive", "MissingDependency", "NegativeValue"}

WritesInOrder ==
    /\ AxisWrites # <<>> /\ AxisWrites[1] = "nu"
    /\ \A i, j \in 1..Len(AxisWrites) :
          i < j => /\ Rank(AxisWrites[i]) <= Rank(AxisWrites[j])
                   /\ AxisWrites[i] = AxisWrites[j] => AxisWrites[i] = "nu"

LteResult ==
    /\ all_set(self)
    /\ self.is_lte = TRUE
    /\ self.var_name = "specific_energy"
    /\ ndim(self.var) = 1 /\ len(self.var) = op.arg.n_temp
    /\ self.jnu.shape = <<len(self.nu), op.arg.n_temp>>

\* C8 (as claimed): set_lte writes nu, then var, then jnu through the setter,
\* so that the jnu assignment never fails for a missing dependency; when it
\* returns normally the table is complete, is_lte is True, var_name is
\* 'specific_energy', var has n_temp entries and jnu the shape
\* (len(nu), n_temp); and it ends with no error but a validation error of
\* the setter.
C8_SetLte ==
    op.name = "set_lte" =>
        /\ WritesInOrder
        /\ err.kind # "MissingDependency"
        /\ err = Ok => LteResult
        /\ err # Ok => err.kind \in ValidationErrors /\ err.attr \in {"nu", "var", "jnu"}

\* What holds of every run, the empty var of n_temp = 0 included.
C8_SetLteButIndexError ==
    op.name = "set_lte" =>
        /\ WritesInOrder
        /\ err.kind # "MissingDependency"
        /\ err = Ok => LteResult
        /\ err # Ok => /\ err.kind \in ValidationErrors \cup {"IndexError"}
                       /\ err.attr \in {"nu", "var", "jnu"}
        /\ err.kind = "IndexError" <=> op.arg.n_temp = 0

----------------------------------------------------------------------------
(* C9 *)

PlanckAxis == planck_nu_range(op.arg.temp_min, op.arg.temp_max)
OpacityAxis == op.arg.optical_properties.nu
LowNotCovered == \E x \in SetOf(PlanckAxis) : \A y \in SetOf(OpacityAxis) : RLt(x, y)
HighNotCovered == \E x \in SetOf(PlanckAxis) : \A y \in SetOf(OpacityAxis) : RLt(y, x)
Merged == SetOf(PlanckAxis) \cup SetOf(OpacityAxis)
Covered ==
    {x \in Merged : /\ \E y \in SetOf(OpacityAxis) : RLe(y, x)
                    /\ \E y \in SetOf(OpacityAxis) : RLe(x, y)}

\* C9: set_lte logs the low-coverage warning exactly when the Planck axis
\* starts below the opacity axis, the high-coverage warning exactly when it
\* ends above it, and nothing else; it does not fail there: the nu it leaves
\* is the merged axis restricted to [opacity.nu.min(), opacity.nu.max()],
\* strictly increasing and positive, and the whole merged axis when nothing
\* was logged.
C9_GridCoverage ==
    op.name = "set_lte" =>
        /\ logged = (IF LowNotCovered THEN <<WarnLow>> ELSE <<>>)
                    \o (IF HighNotCovered THEN <<WarnHigh>> ELSE <<>>)
        /\ err.attr # "nu"
        /\ self.nu.kind = "ndarray" /\ ndim(self.nu) = 1
        /\ SetOf(self.nu) = Covered
        /\ len(self.nu) = Cardinality(Covered)
        /\ StrictlyIncreasing(self.nu) /\ StrictlyPositive(self.nu)
        /\ logged = <<>> => SetOf(self.nu) = Merged

\* Both warnings logged, on a table that had another nu, and merged
\* frequencies dropped at both ends.
C9_Witness ==
    /\ op.name = "set_lte"
    /\ logged = <<WarnLow, WarnHigh>>
    /\ old.nu # None /\ old.nu # self.nu
    /\ \E x \in Merged : \A y \in SetOf(self.nu) : RLt(x, y)
    /\ \E x \in Merged : \A y \in SetOf(self.nu) : RLt(y, x)

----------------------------------------------------------------------------
(* C4 *)

Complete(t) == t.var_name # "None" /\ t.var # None /\ t.nu # None /\ t.jnu # None

\* the last call read the table set that the last to_table_set wrote in full
ReadBack ==
    /\ op.name = "from_table_set"
    /\ op.arg.table_set = ts
    /\ written # __init__

\* C4 (as claimed): for any complete table T, here with the one var_name the
\* codec knows, to_table_set on an empty table set succeeds, and
\* from_table_set of that table set, on a new table or on a populated one,
\* succeeds and leaves the five fields equal to those of T.
C4_RoundTrip ==
    /\ (op.name = "to_table_set" /\ Complete(old) /\ old.var_name = "specific_energy")
          => err = Ok /\ written = old
    /\ ReadBack => err = Ok /\ self = written

\* The round trip of the tables whose jnu has the shape (len(nu), len(var)).
C4_RoundTripOfShapedTables ==
    /\ (op.name = "to_table_set" /\ Complete(old) /\ old.var_name = "specific_energy"
          /\ ShapeMatches(old)) => err = Ok /\ written = old
    /\ (ReadBack /\ ShapeMatches(written)) => err = Ok /\ self = written

----------------------------------------------------------------------------
(* C5 *)

EmissvarOf(table_set) ==
    IF "emissvar" \in DOMAIN table_set.keywords THEN table_set.keywords["emissvar"] ELSE ""

\* C5: to_table_set fails whenever var_name, var, nu or jnu is absent or
\* var_name is not 'specific_energy', and then the table set has no keyword
\* and no table; from_table_set fails on an emissvar keyword other than 'E',
\* and then it has assigned nothing and no field has changed.
C5_FailsBeforeWriting ==
    /\ (op.name = "to_table_set" /\ (~Complete(old) \/ old.var_name # "specific_energy"))
          => /\ err # Ok
             /\ DOMAIN ts.keywords = {} /\ ts.tables = <<>>
             /\ self = old
    /\ (op.name = "from_table_set" /\ EmissvarOf(op.arg.table_set) \notin {"", "E"})
          => /\ err # Ok
             /\ writes = <<>>
             /\ self = old

\* to_table_set refuses a complete, well-shaped table with another var_name.
C5_Witness ==
    /\ op.name = "to_table_set"
    /\ Complete(old) /\ ShapeMatches(old)
    /\ old.var_name = "temperature"
    /\ err.kind = "UnsupportedVariable"

\* from_table_set refuses the keyword 'T' of a table set that holds a table.
C5_WitnessRead ==
    /\ op.name = "from_table_set"
    /\ EmissvarOf(op.arg.table_set) = "T"
    /\ op.arg.table_set.tables # <<>>
    /\ Complete(old)
    /\ err.kind = "UnsupportedVariable"

----------------------------------------------------------------------------
(* C10 *)

Populating == op.name \in {"set_lte", "from_table_set"}

\* C10 (as claimed): a set_lte or from_table_set call that fails, here
\* because the setter rejects one of its assignments, leaves is_lte,
\* var_name, var, nu and jnu as they were before the call.
C10_AllOrNothing ==
    (Populating /\ err.kind \in ValidationErrors) => self = old

WriteOrder ==
    IF op.name = "set_lte" THEN <<"is_lte", "nu", "var_name", "var", "jnu">>
    ELSE <<"var_name", "var", "nu", "jnu", "is_lte">>

\* the attributes the last call assigned: its writes but a rejected one
Assigned ==
    {writes[i] : i \in 1..Len(writes)}
        \ (IF err.attr = "-" THEN {} ELSE {writes[Len(writes)]})

Position(attribute) == CHOOSE i \in 1..5 : WriteOrder[i] = attribute

\* C10 (amended): a set_lte or from_table_set call that fails keeps the
\* assignments it made before the failure and makes none after it: the
\* fields assigned are a prefix of the call's order of writes (is_lte, nu,
\* var_name, var, jnu for set_lte; var_name, var, nu, jnu, is_lte for
\* from_table_set), the rejected value is not stored, and every field not
\* assigned has the value it had before the call.
C10_PrefixKept ==
    (Populating /\ err # Ok) =>
        /\ \A f \in Fields \ Assigned : self[f] = old[f]
        /\ \A f \in Assigned, g \in Fields : Position(g) < Position(f) => g \in Assigned
        /\ err.attr # "-" => err.attr \notin Assigned
        /\ Assigned # Fields
        /\ "is_lte" \in Assigned => self.is_lte = (op.name = "set_lte")
        /\ "var_name" \in Assigned => self.var_name = "specific_energy"
        /\ (op.name = "from_table_set" /\ "var" \in Assigned) =>
              self.var = GetTable(op.arg.table_set, "emissivity_variable").columns["specific_energy"]
        /\ (op.name = "from_table_set" /\ "nu" \in Assigned) =>
              self.nu = GetTable(op.arg.table_set, "emissivities").columns["nu"]
        /\ (op.name = "set_lte" /\ "var" \in Assigned) => len(self.var) = op.arg.n_temp

\* A populated table on which set_lte replaced nu and var and then had its
\* jnu rejected: the old jnu stays beside the new axes.
C10_Witness ==
    /\ op.name = "set_lte"
    /\ err = Error("NegativeValue", "jnu")
    /\ Complete(old)
    /\ self.jnu = old.jnu /\ self.nu # old.nu /\ self.var # old.var

----------------------------------------------------------------------------
(* C6 *)

DifferingFields(a, b) == {f \in Fields : a[f] # b[f]}

\* C6 (as claimed): hash() changes no field; two calls on tables with the
\* same values of is_lte, var_name, var, nu and jnu return the same digest;
\* and two calls on complete tables that differ in the value of exactly one
\* field return different digests (md5 taken as injective).
C6_HashContent ==
    /\ op.name = "hash" => self = old
    /\ Len(ret) = 2 =>
          /\ ret[1].of = ret[2].of => ret[1].digest = ret[2].digest
          /\ (Complete(ret[1].of) /\ Complete(ret[2].of)
                /\ Cardinality(DifferingFields(ret[1].of, ret[2].of)) = 1)
                => ret[1].digest # ret[2].digest

\* The same of the tables whose jnu has the shape (len(nu), len(var)).
C6_HashContentOfShapedTables ==
    /\ op.name = "hash" => self = old
    /\ Len(ret) = 2 =>
          /\ ret[1].of = ret[2].of => ret[1].digest = ret[2].digest
          /\ (ShapeMatches(ret[1].of) /\ ShapeMatches(ret[2].of)
                /\ Cardinality(DifferingFields(ret[1].of, ret[2].of)) = 1)
                => ret[1].digest # ret[2].digest

----------------------------------------------------------------------------
(* C7 *)

\* the frequency integral of jnu[:, i] / nu over nu
ColumnIntegral(t, i) ==
    integrate_loglog(t.nu.data, Quotient(Column(t.jnu, i), t.nu.data))

NonNegative(x) == RLe(Zero, x)

OnlyJnuValuesChanged ==
    /\ \A f \in Fields \ {"jnu"} : self[f] = old[f]
    /\ self.jnu.kind = old.jnu.kind /\ self.jnu.shape = old.jnu.shape

====
